---- MODULE Spec2Model ----
(***************************************************************************)
(* Model of mapLimit (src/example.js, lines 46-61): a concurrency-limited  *)
(* async map.  JavaScript runs one continuation at a time, so every action *)
(* below is one uninterrupted run of code between two suspension points:   *)
(*   mapLimit        the synchronous part of a call (lines 47-59): the     *)
(*                   clamp, the result array, the cursor, and the spawn of *)
(*                   the logical workers, each of which runs to its first  *)
(*                   await;                                                *)
(*   MapperSettle    the promise returned by mapper(items[i], i) settles   *)
(*                   (the environment's step);                             *)
(*   WorkerResume    a worker continues after its await (line 55, then the *)
(*                   loop of lines 52-55 up to the next await or exit),    *)
(*                   with the reaction of Promise.all to the worker's      *)
(*                   promise;                                              *)
(*   MapLimitSettle  mapLimit continues after `await Promise.all(...)`     *)
(*                   (lines 59-60) and settles the promise it returned.    *)
(* Array indices are the source's (0-based); items is a TLA+ sequence, so  *)
(* items[i] of the source is ItemAt(its, i) here.                          *)
(***************************************************************************)
EXTENDS Integers, Sequences, FiniteSets

VARIABLES
    items,        \* per call: the `items` argument
    options,      \* per call: the `options` argument (a record that may lack `concurrency`)
    concurrency,  \* per call: const concurrency (line 47)
    results,      \* per call: const results (line 48), a sparse array
    nextIndex,    \* per cursor cell: let nextIndex (line 49)
    workers,      \* per call: the logical workers spawned on line 59, in spawn order
    all,          \* per call: the promise made by Promise.all (line 59)
    promise,      \* per call: the promise mapLimit returned to its caller
    claimLog,     \* history, per call: the indices handed out by nextIndex++, with the worker
    detected,     \* history, per call: the indices whose failure a worker observed, in time order
    overlapped,   \* history: a call of mapLimit started while another one was pending
    argv,         \* the argument of main (process.argv)
    mainPc,       \* main (lines 96-114) and its caller (lines 116-122): where they are
    stdout,       \* what process.stdout.write was given, in order
    stderr,       \* what console.error was given, in order
    exitCode      \* process.exitCode

mainVars == <<argv, mainPc, stdout, stderr, exitCode>>
vars == <<items, options, concurrency, results, nextIndex, workers, all, promise,
          claimLog, detected, overlapped, argv, mainPc, stdout, stderr, exitCode>>

\* ------------------------------------------------------------------ bounds
MaxItems == 3       \* longest items array of a single call
MaxItemVal == 2     \* items are drawn from 0..MaxItemVal
MaxNeg == 1         \* requested concurrency goes down to -MaxNeg
MaxReq == 4         \* requested concurrency goes up to MaxReq
TwoMaxItems == 2    \* longest items array when two calls overlap
TwoMaxReq == 2      \* largest requested concurrency when two calls overlap
LiveMaxItems == 3   \* longest items array of a call run under fairness
LiveMaxReq == 2     \* largest requested concurrency of a call run under fairness
CliMaxArgs == 5     \* most command-line arguments after the script path

Calls == {1, 2}

Min(a, b) == IF a <= b THEN a ELSE b
Max(a, b) == IF a >= b THEN a ELSE b

RECURSIVE SeqsUpTo(_, _)
SeqsUpTo(S, n) ==
    IF n = 0 THEN {<<>>}
    ELSE LET shorter == SeqsUpTo(S, n - 1)
         IN  shorter \cup {Append(s, x) : s \in {t \in shorter : Len(t) = n - 1}, x \in S}

ItemVals == 0..MaxItemVal
ItemSeqs == SeqsUpTo(ItemVals, MaxItems)
TwoItemSeqs == SeqsUpTo(0..1, TwoMaxItems)
LiveItemSeqs == SeqsUpTo(0..1, LiveMaxItems)

\* `options = {}` has no concurrency key; {concurrency: r} has one.
NoOptions == [k \in {} |-> 0]
OptionsOf(r) == [k \in {"concurrency"} |-> r]
OptionSet == {NoOptions} \cup {OptionsOf(r) : r \in (0 - MaxNeg)..MaxReq}
TwoOptionSet == {OptionsOf(r) : r \in 1..TwoMaxReq}
LiveOptionSet == {OptionsOf(r) : r \in 1..LiveMaxReq}

\* ------------------------------------------------------------------ the mapper
\* The caller's mapper is a function of (item, index) returning a promise.  The
\* model's mapper rejects on the item BadItem (as summarizeJsonFile does on a
\* file that is not JSON) and fulfils with a value that depends on both
\* arguments on every other item.
BadItem == 0
MapperFails(x, i) == x = BadItem
MapperValue(x, i) == [of |-> x * x, at |-> i]
\* An error is an object with an identity: `at` tells the error object of one
\* invocation from the error object of another on an equal item.
MapperError(x, i) == [kind |-> "MapperError", item |-> x, at |-> i]
NoError == [kind |-> "none", item |-> 0, at |-> 0]

ItemAt(its, i) == its[i + 1]
Indices(its) == 0..(Len(its) - 1)
FailIdx(its) == {i \in Indices(its) : MapperFails(ItemAt(its, i), i)}

\* ------------------------------------------------------------------ line 47
DefaultConcurrency == 4
RequestedOr_WrongDefault(opts, dflt) ==
    IF "concurrency" \in DOMAIN opts THEN opts["concurrency"] ELSE dflt + 1
RequestedOr(opts, dflt) == IF "concurrency" \in DOMAIN opts THEN opts["concurrency"] ELSE dflt
Concurrency_NoClamp(opts) == RequestedOr(opts, DefaultConcurrency)
Concurrency(opts) == Max(1, RequestedOr(opts, DefaultConcurrency))

\* ------------------------------------------------------------------ line 48
\* new Array(n): length n and no element; a slot exists once it is assigned.
NewArray(n) == [length |-> n, slots |-> [j \in {} |-> 0]]
StoreResult_Drop(res, i, v) == res
StoreResult_Fresh(res, i, v) == [res EXCEPT !.slots = [j \in {i} |-> v]]
StoreResult_Push(res, i, v) ==
    LET k == Cardinality(DOMAIN res.slots)
    IN  [res EXCEPT !.slots = [j \in (DOMAIN res.slots) \cup {k} |-> IF j = k THEN v ELSE res.slots[j]]]
StoreResult(res, i, v) ==
    [res EXCEPT !.slots = [j \in (DOMAIN res.slots) \cup {i} |-> IF j = i THEN v ELSE res.slots[j]]]

\* ------------------------------------------------------------------ line 49
\* nextIndex is a local of the call: each call has its own cursor cell.
CursorOf_Shared(c) == 1
CursorOf(c) == c

\* ------------------------------------------------------------------ line 53
NextCursor_NoIncrement(ni) == ni
NextCursor(ni) == ni + 1

\* ------------------------------------------------------------------ line 59
NumWorkers_PerItem(conc, n) == n
NumWorkers_NoMin(conc, n) == conc
NumWorkers(conc, n) == Min(conc, n)

\* ------------------------------------------------------------------ lines 51-57
\* One run of the worker's loop from its top to the next suspension: the claim
\* `i = nextIndex++`, then either `return` (i >= items.length) or the call
\* mapper(items[i], i), whose promise the worker awaits.  cs holds the cursor,
\* the workers and the claim history of one call; n is items.length.
WorkerLoop(cs, w, n) ==
    LET i == cs.nextIndex
    IN  IF i >= n
        THEN [cs EXCEPT !.nextIndex = NextCursor(i),
                        !.workers[w] = [st |-> "returned", i |-> i]]
        ELSE [cs EXCEPT !.nextIndex = NextCursor(i),
                        !.workers[w] = [st |-> "running", i |-> i],
                        !.claimLog = Append(@, [index |-> i, worker |-> w])]

\* Array.from({length: k}, worker): k calls of worker(), one after the other,
\* each running to its first await.  A length below 1 makes no call.
Spawn_One(cs, k, n) ==
    IF k <= 0 THEN cs
    ELSE WorkerLoop([cs EXCEPT !.workers = Append(@, [st |-> "new", i |-> 0])], 1, n)
RECURSIVE Spawn(_, _, _)
Spawn(cs, k, n) ==
    IF k <= 0 THEN cs
    ELSE LET prev == Spawn(cs, k - 1, n)
         IN  WorkerLoop([prev EXCEPT !.workers = Append(@, [st |-> "new", i |-> 0])], k, n)

\* ------------------------------------------------------------------ Promise.all (line 59)
PendingAll == [state |-> "pending", reason |-> NoError]
\* Promise.all fulfils once every promise passed to it is fulfilled.
AllAfterReturn_Never(a, ws) == a
AllAfterReturn(a, ws) ==
    IF a.state = "pending" /\ \A w \in DOMAIN ws : ws[w].st = "returned"
    THEN [state |-> "fulfilled", reason |-> NoError]
    ELSE a
\* Promise.all rejects with the reason of the first of its promises to reject;
\* a promise settles once, so a later rejection changes nothing.
AllAfterReject_LastWins(a, reason) == [state |-> "rejected", reason |-> reason]
AllAfterReject(a, reason) ==
    IF a.state = "pending" THEN [state |-> "rejected", reason |-> reason] ELSE a

\* ------------------------------------------------------------------ lines 59-60
NoPromise == [state |-> "none", value |-> NewArray(0), error |-> NoError]
PendingPromise == [state |-> "pending", value |-> NewArray(0), error |-> NoError]
\* `await Promise.all(...)` throws the rejection reason out of mapLimit, or
\* falls through to `return results`.
OutcomeOf_Wrapped(a, res) ==
    IF a.state = "fulfilled"
    THEN [state |-> "resolved", value |-> res, error |-> NoError]
    ELSE [state |-> "rejected", value |-> NewArray(0),
          error |-> [kind |-> "WorkerFailure", item |-> a.reason.item, at |-> a.reason.at]]
OutcomeOf_AllSettled(a, res) == [state |-> "resolved", value |-> res, error |-> NoError]
OutcomeOf(a, res) ==
    IF a.state = "fulfilled"
    THEN [state |-> "resolved", value |-> res, error |-> NoError]
    ELSE [state |-> "rejected", value |-> NewArray(0), error |-> a.reason]

\* ------------------------------------------------------------------ state
Init ==
    /\ items = [c \in Calls |-> <<>>]
    /\ options = [c \in Calls |-> NoOptions]
    /\ concurrency = [c \in Calls |-> 0]
    /\ results = [c \in Calls |-> NewArray(0)]
    /\ nextIndex = [c \in Calls |-> 0]
    /\ workers = [c \in Calls |-> <<>>]
    /\ all = [c \in Calls |-> [state |-> "none", reason |-> NoError]]
    /\ promise = [c \in Calls |-> NoPromise]
    /\ claimLog = [c \in Calls |-> <<>>]
    /\ detected = [c \in Calls |-> <<>>]
    /\ overlapped = FALSE
    /\ argv = <<>>
    /\ mainPc = "idle"
    /\ stdout = <<>>
    /\ stderr = <<>>
    /\ exitCode = 0

\* mapLimit(items, mapper, options), up to its await on line 59; the arguments
\* are drawn from ItemSet and OptSet.
mapLimit(c, ItemSet, OptSet) ==
    /\ promise[c].state = "none"
    /\ \E its \in ItemSet, opts \in OptSet :
          LET conc == Concurrency(opts)
              n == Len(its)
              cs == Spawn([nextIndex |-> 0, workers |-> <<>>, claimLog |-> <<>>],
                          NumWorkers(conc, n), n)
          IN  /\ items' = [items EXCEPT ![c] = its]
              /\ options' = [options EXCEPT ![c] = opts]
              /\ concurrency' = [concurrency EXCEPT ![c] = conc]
              /\ results' = [results EXCEPT ![c] = NewArray(n)]
              /\ nextIndex' = [nextIndex EXCEPT ![CursorOf(c)] = cs.nextIndex]
              /\ workers' = [workers EXCEPT ![c] = cs.workers]
              /\ claimLog' = [claimLog EXCEPT ![c] = cs.claimLog]
              /\ all' = [all EXCEPT ![c] = AllAfterReturn(PendingAll, cs.workers)]
              /\ promise' = [promise EXCEPT ![c] = PendingPromise]
    /\ overlapped' = (overlapped \/ \E d \in Calls \ {c} : promise[d].state = "pending")
    /\ UNCHANGED detected

\* A call of mapLimit by a caller other than main.
CallMapLimit(c, ItemSet, OptSet) ==
    /\ mapLimit(c, ItemSet, OptSet)
    /\ UNCHANGED mainVars

\* The promise of mapper(items[i], i) that worker w awaits settles.
MapperSettle(c, w) ==
    /\ w \in DOMAIN workers[c]
    /\ workers[c][w].st = "running"
    /\ LET i == workers[c][w].i
       IN  workers' = [workers EXCEPT ![c][w].st =
                          IF MapperFails(ItemAt(items[c], i), i) THEN "rejected" ELSE "fulfilled"]
    /\ UNCHANGED <<items, options, concurrency, results, nextIndex, all, promise,
                   claimLog, detected, overlapped>>
    /\ UNCHANGED mainVars

\* Worker w continues after `await mapper(items[i], i)` (line 55).
WorkerResume(c, w) ==
    /\ w \in DOMAIN workers[c]
    /\ workers[c][w].st \in {"fulfilled", "rejected"}
    /\ LET i == workers[c][w].i
           x == ItemAt(items[c], i)
       IN  IF workers[c][w].st = "rejected"
           THEN \* the await throws: the worker's promise rejects
                /\ workers' = [workers EXCEPT ![c][w].st = "thrown"]
                /\ detected' = [detected EXCEPT ![c] = Append(@, i)]
                /\ all' = [all EXCEPT ![c] = AllAfterReject(@, MapperError(x, i))]
                /\ UNCHANGED <<results, nextIndex, claimLog>>
           ELSE \* results[i] = <value>, then the loop again
                LET cs == WorkerLoop([nextIndex |-> nextIndex[CursorOf(c)],
                                      workers |-> workers[c],
                                      claimLog |-> claimLog[c]], w, Len(items[c]))
                IN  /\ results' = [results EXCEPT ![c] = StoreResult(@, i, MapperValue(x, i))]
                    /\ nextIndex' = [nextIndex EXCEPT ![CursorOf(c)] = cs.nextIndex]
                    /\ workers' = [workers EXCEPT ![c] = cs.workers]
                    /\ claimLog' = [claimLog EXCEPT ![c] = cs.claimLog]
                    /\ all' = [all EXCEPT ![c] = AllAfterReturn(@, cs.workers)]
                    /\ UNCHANGED detected
    /\ UNCHANGED <<items, options, concurrency, promise, overlapped>>
    /\ UNCHANGED mainVars

\* mapLimit continues after `await Promise.all(...)` and settles its promise.
MapLimitSettle(c) ==
    /\ promise[c].state = "pending"
    /\ all[c].state \in {"fulfilled", "rejected"}
    /\ promise' = [promise EXCEPT ![c] = OutcomeOf(all[c], results[c])]
    /\ UNCHANGED <<items, options, concurrency, results, nextIndex, workers, all,
                   claimLog, detected, overlapped>>
    /\ UNCHANGED mainVars

WorkerIds == 1..(MaxItems + MaxReq + 1)

\* One call of mapLimit, with every input of the bounds.
Next ==
    \/ CallMapLimit(1, ItemSeqs, OptionSet)
    \/ \E w \in WorkerIds : MapperSettle(1, w)
    \/ \E w \in WorkerIds : WorkerResume(1, w)
    \/ MapLimitSettle(1)

Spec == Init /\ [][Next]_vars

\* Two calls of mapLimit whose executions may overlap in any way.
NextTwo ==
    \/ \E c \in Calls : CallMapLimit(c, TwoItemSeqs, TwoOptionSet)
    \/ \E c \in Calls, w \in WorkerIds : MapperSettle(c, w)
    \/ \E c \in Calls, w \in WorkerIds : WorkerResume(c, w)
    \/ \E c \in Calls : MapLimitSettle(c)

SpecTwo == Init /\ [][NextTwo]_vars

\* One call of mapLimit under the scheduling JavaScript guarantees: a
\* continuation that is ready to run (a worker after its await, mapLimit after
\* Promise.all settled) does run; and under the assumption of the termination
\* claims, that every mapper promise a worker awaits does settle.
NextLive ==
    \/ CallMapLimit(1, LiveItemSeqs, LiveOptionSet)
    \/ \E w \in WorkerIds : MapperSettle(1, w)
    \/ \E w \in WorkerIds : WorkerResume(1, w)
    \/ MapLimitSettle(1)

Fairness ==
    /\ \A w \in WorkerIds : WF_vars(MapperSettle(1, w))
    /\ \A w \in WorkerIds : WF_vars(WorkerResume(1, w))
    /\ WF_vars(MapLimitSettle(1))

SpecLive == Init /\ [][NextLive]_vars /\ Fairness

\* ------------------------------------------------------------------ main (lines 96-122)
\* Command-line arguments are numbers: HelpShort is '-h', HelpLong is
\* '--help', and a number from 0 on is the path of a file, which main hands to
\* mapLimit as an item.  The mapper of main is summarizeJsonFile: it rejects
\* on a file that cannot be read or is not JSON (the item BadItem) and
\* fulfils with the summary of any other file.
HelpShort == -1
HelpLong == -2
NodeArg == 100
ScriptArg == 101
MainConcurrency == 4
FailureExitCode == 1
CliArgSeqs == SeqsUpTo({HelpShort, HelpLong, 0, 1}, CliMaxArgs)
CliItemSeqs == SeqsUpTo(0..1, CliMaxArgs)

\* argv.slice(k)
Slice(seq, k) == SubSeq(seq, k + 1, Len(seq))
\* args.includes(x)
Includes(args, x) == \E j \in 1..Len(args) : args[j] = x
\* line 98
WantsUsage_FirstOnly(args) == Len(args) = 0 \/ args[1] = HelpShort \/ args[1] = HelpLong
WantsUsage(args) == Len(args) = 0 \/ Includes(args, HelpShort) \/ Includes(args, HelpLong)
\* lines 99-103: the usage text names the script.
UsageText(av) == [kind |-> "usage", script |-> av[2], elems |-> <<>>]
\* JSON.stringify(summaries, null, 2) + '\n': the elements in array order, an
\* empty slot as null.
NullElem(i) == [of |-> 0 - 1, at |-> i]
Stringify(res) ==
    [kind |-> "json", script |-> 0,
     elems |-> [j \in 1..res.length |->
                   IF (j - 1) \in DOMAIN res.slots THEN res.slots[j - 1] ELSE NullElem(j - 1)]]
\* lines 107-113: the write happens only if the await did not throw.
StdoutAfter_Always(out, p) == Append(out, Stringify(results[1]))
StdoutAfter(out, p) ==
    IF p.state = "resolved" THEN Append(out, Stringify(p.value)) ELSE out

\* main(process.argv) up to its return (usage) or its await on line 107.  main
\* is the entry of the process (line 116): nothing has called mapLimit before.
Main(ArgSet) ==
    /\ mainPc = "idle"
    /\ promise[1].state = "none"
    /\ \E args \in ArgSet :
          LET av == <<NodeArg, ScriptArg>> \o args
              a == Slice(av, 2)
          IN  /\ argv' = av
              /\ IF WantsUsage(a)
                 THEN /\ stdout' = Append(stdout, UsageText(av))
                      /\ mainPc' = "returned"
                      /\ UNCHANGED <<items, options, concurrency, results, nextIndex, workers,
                                     all, promise, claimLog, detected, overlapped>>
                 ELSE /\ mapLimit(1, {a}, {OptionsOf(MainConcurrency)})
                      /\ mainPc' = "awaiting"
                      /\ UNCHANGED stdout
    /\ UNCHANGED <<stderr, exitCode>>

\* main continues after `await mapLimit(...)`: it writes the summaries, or the
\* await throws and main's promise rejects.
MainResume ==
    /\ mainPc = "awaiting"
    /\ promise[1].state \in {"resolved", "rejected"}
    /\ stdout' = StdoutAfter(stdout, promise[1])
    /\ mainPc' = IF promise[1].state = "resolved" THEN "returned" ELSE "thrown"
    /\ UNCHANGED <<items, options, concurrency, results, nextIndex, workers, all, promise,
                   claimLog, detected, overlapped, argv, stderr, exitCode>>

\* The catch handler of lines 118-121.
MainCatch ==
    /\ mainPc = "thrown"
    /\ stderr' = Append(stderr, promise[1].error)
    /\ exitCode' = FailureExitCode
    /\ mainPc' = "caught"
    /\ UNCHANGED <<items, options, concurrency, results, nextIndex, workers, all, promise,
                   claimLog, detected, overlapped, argv, stdout>>

\* A call mapLimit(items, mapper) that leaves the options out, in a process
\* that does not run main.
CallWithoutOptions ==
    /\ mainPc = "idle"
    /\ CallMapLimit(1, CliItemSeqs, {NoOptions})

\* The program run from the command line, or one call of mapLimit that leaves
\* the concurrency option out.
NextCli ==
    \/ Main(CliArgSeqs)
    \/ CallWithoutOptions
    \/ \E w \in WorkerIds : MapperSettle(1, w)
    \/ \E w \in WorkerIds : WorkerResume(1, w)
    \/ MapLimitSettle(1)
    \/ MainResume
    \/ MainCatch

SpecCli == Init /\ [][NextCli]_vars

\* ------------------------------------------------------------------ properties
Called(c) == promise[c].state # "none"
Given(c) == "concurrency" \in DOMAIN options[c]
Requested(c) == options[c]["concurrency"]
InFlight(c) == Cardinality({w \in DOMAIN workers[c] : workers[c][w].st = "running"})
Quiescent(c) == \A w \in DOMAIN workers[c] : workers[c][w].st \in {"returned", "thrown"}
\* The array mapper would give item by item: slot i holds mapper(items[i], i).
Mapped(its) == [length |-> Len(its),
                slots |-> [i \in Indices(its) |-> MapperValue(ItemAt(its, i), i)]]
ErrorAt(c, i) == MapperError(ItemAt(items[c], i), i)

\* C1: for non-empty items and every interleaving of completions, when every
\* mapper invocation succeeds mapLimit does not reject, and what it resolves
\* with has the length of items and holds mapper(items[i], i) at position i;
\* once every worker has returned, the result array is that array and
\* Promise.all is fulfilled.
C1_OrderedResults ==
    (Called(1) /\ Len(items[1]) >= 1 /\ FailIdx(items[1]) = {}) =>
        /\ promise[1].state # "rejected"
        /\ promise[1].state = "resolved" => promise[1].value = Mapped(items[1])
        /\ Quiescent(1) => (results[1] = Mapped(items[1]) /\ all[1].state = "fulfilled")

\* Witness of C1: three items mapped by two workers, resolved, where worker 2
\* completed index 1 and took index 2 while worker 1 was still on index 0.
C1_Witness ==
    /\ promise[1].state = "resolved"
    /\ Len(items[1]) = 3
    /\ items[1][1] # items[1][2]
    /\ Len(workers[1]) = 2
    /\ claimLog[1][2].worker = 2
    /\ claimLog[1][3].worker = 2

\* C2: in every reachable state the number of mapper invocations started and
\* not yet settled is at most min(concurrency, len(items)), where concurrency
\* is the requested one when that is >= 1 (the clamped one of line 47 always).
C2_InFlightBound ==
    Called(1) =>
        /\ InFlight(1) <= Min(concurrency[1], Len(items[1]))
        /\ (Given(1) /\ Requested(1) >= 1) => InFlight(1) <= Min(Requested(1), Len(items[1]))

\* Witness of C2: concurrency 2 on three items, the bound reached again after
\* a worker has come back for the third item.
C2_Witness ==
    /\ Given(1) /\ Requested(1) = 2
    /\ Len(items[1]) = 3
    /\ Len(claimLog[1]) = 3
    /\ InFlight(1) = 2

\* C3 (as claimed): once a mapper failure has been recorded, no new index of
\* items is claimed and no mapper invocation is started for any item.
C3_NoClaimAfterFailure ==
    [][detected[1] # <<>> => claimLog'[1] = claimLog[1]]_vars

\* C4: the caller gets either the full ordered result array or one error,
\* never both and never a partial array: a resolved promise carries the
\* array of every mapper(items[i], i) and no invocation failed; a rejected
\* one carries no array and the error of a failed invocation; and when
\* exactly one invocation failed, Promise.all is rejected with that
\* invocation's error, which is the only outcome mapLimit can settle with.
C4_ErrorOrFullResult ==
    Called(1) =>
        /\ promise[1].state = "resolved" =>
              /\ detected[1] = <<>>
              /\ promise[1].value = Mapped(items[1])
              /\ promise[1].error = NoError
        /\ promise[1].state = "rejected" =>
              /\ promise[1].value = NewArray(0)
              /\ \E j \in 1..Len(detected[1]) : promise[1].error = ErrorAt(1, detected[1][j])
        /\ (Quiescent(1) /\ Len(detected[1]) = 1) =>
              /\ all[1] = [state |-> "rejected", reason |-> ErrorAt(1, detected[1][1])]
              /\ promise[1].state \in {"pending", "rejected"}
              /\ promise[1].state = "rejected" => promise[1].error = ErrorAt(1, detected[1][1])

\* Witness of C4: exactly one of three invocations failed, the others stored
\* their results, and mapLimit rejected.
C4_Witness ==
    /\ promise[1].state = "rejected"
    /\ Len(items[1]) = 3
    /\ Quiescent(1)
    /\ Len(detected[1]) = 1
    /\ Cardinality(DOMAIN results[1].slots) = 2

\* C5: when invocations fail, the error mapLimit surfaces is the one of the
\* failure detected first in time, whatever its index; later failures change
\* neither Promise.all's rejection nor the outcome.
C5_FirstDetectedError ==
    (Called(1) /\ detected[1] # <<>>) =>
        /\ all[1] = [state |-> "rejected", reason |-> ErrorAt(1, detected[1][1])]
        /\ promise[1].state \in {"pending", "rejected"}
        /\ promise[1].state = "rejected" => promise[1].error = ErrorAt(1, detected[1][1])

\* Witness of C5: two failures, the one detected first has the higher index,
\* and mapLimit has rejected.
C5_Witness ==
    /\ promise[1].state = "rejected"
    /\ Len(detected[1]) = 2
    /\ detected[1][1] > detected[1][2]
    /\ promise[1].error = ErrorAt(1, detected[1][1])

\* C6: for empty items and any concurrency, mapLimit spawns no worker, starts
\* no mapper invocation, and resolves (never rejects) with an empty array.
C6_EmptyItems ==
    (Called(1) /\ Len(items[1]) = 0) =>
        /\ workers[1] = <<>>
        /\ claimLog[1] = <<>>
        /\ all[1].state = "fulfilled"
        /\ promise[1].state \in {"pending", "resolved"}
        /\ promise[1].state = "resolved" => promise[1].value = NewArray(0)

\* Witness of C6: items = [] with concurrency 4, resolved.
C6_Witness ==
    /\ promise[1].state = "resolved"
    /\ items[1] = <<>>
    /\ Given(1) /\ Requested(1) = 4

\* C7: for non-empty items the number of workers spawned is
\* max(1, min(requested, len(items))): one for a requested concurrency of 0
\* or below, len(items) for a requested concurrency above len(items).
C7_WorkerCount ==
    (Called(1) /\ Given(1) /\ Len(items[1]) >= 1) =>
        /\ Len(workers[1]) = Max(1, Min(Requested(1), Len(items[1])))
        /\ Requested(1) <= 0 => Len(workers[1]) = 1
        /\ Requested(1) > Len(items[1]) => Len(workers[1]) = Len(items[1])

\* Witness of C7: a negative requested concurrency on three items, one worker
\* that mapped them all.
C7_Witness ==
    /\ promise[1].state = "resolved"
    /\ Given(1) /\ Requested(1) < 0
    /\ Len(items[1]) = 3
    /\ Len(workers[1]) = 1

\* C8: the cursor hands out the indices 0, 1, 2, ... in this order, each to
\* one worker, none twice and none skipped, and never an index past the last
\* item; when mapLimit resolves (no invocation failed) every index of items
\* has been handed out exactly once.
C8_CursorClaims ==
    Called(1) =>
        /\ \A j \in 1..Len(claimLog[1]) : claimLog[1][j].index = j - 1
        /\ Len(claimLog[1]) <= Len(items[1])
        /\ \A j \in 1..Len(claimLog[1]) : claimLog[1][j].worker \in DOMAIN workers[1]
        /\ nextIndex[1] >= Len(claimLog[1])
        /\ promise[1].state = "resolved" => Len(claimLog[1]) = Len(items[1])

\* Witness of C8: three items, two workers, resolved, the third index taken
\* by worker 1 after worker 2 had taken the second.
C8_Witness ==
    /\ promise[1].state = "resolved"
    /\ Len(items[1]) = 3
    /\ Len(workers[1]) = 2
    /\ claimLog[1][3].worker = 1

\* C9 (as claimed): the error mapLimit rejects with is a WorkerFailure that
\* wraps the mapper's error and carries the index of the failed item.
WorkerFailure(cause, i) == [kind |-> "WorkerFailure", cause |-> cause, index |-> i]
C9_WorkerFailureSurfaced ==
    promise[1].state = "rejected" =>
        \E i \in Indices(items[1]) :
            /\ MapperFails(ItemAt(items[1], i), i)
            /\ promise[1].error.kind = "WorkerFailure"
            /\ promise[1].error = WorkerFailure(ErrorAt(1, i), i)

\* C9 (amended): the error mapLimit rejects with is the very error the mapper
\* raised for a failing item, neither wrapped nor tagged by mapLimit.
C9_RawMapperError ==
    promise[1].state = "rejected" =>
        /\ promise[1].error.kind = "MapperError"
        /\ \E i \in FailIdx(items[1]) : promise[1].error = ErrorAt(1, i)

\* Witness of C9: mapLimit rejected on three items of which only the last fails.
C9_Witness ==
    /\ promise[1].state = "rejected"
    /\ Len(items[1]) = 3
    /\ FailIdx(items[1]) = {2}
    /\ promise[1].error = ErrorAt(1, 2)

\* C10: two calls of mapLimit that overlap in time do not interfere.  No step
\* changes the state of both calls; and each call keeps to what it does
\* alone, on its own items: its cursor hands out its own indices in order,
\* its in-flight invocations stay within its own bound, it resolves only with
\* the array of its own mapper(items[i], i) and only if none of its items
\* fails, and it rejects only with the error of one of its own failing items.
CallState(c) == <<items[c], options[c], concurrency[c], results[c], nextIndex[c],
                  workers[c], all[c], promise[c], claimLog[c], detected[c]>>
CallAlone(c) ==
    Called(c) =>
        /\ \A j \in 1..Len(claimLog[c]) : claimLog[c][j].index = j - 1
        /\ Len(claimLog[c]) <= Len(items[c])
        /\ nextIndex[c] >= Len(claimLog[c])
        /\ nextIndex[c] <= Len(items[c]) + Len(workers[c])
        /\ InFlight(c) <= Min(concurrency[c], Len(items[c]))
        /\ DOMAIN results[c].slots \subseteq Indices(items[c])
        /\ \A i \in DOMAIN results[c].slots : results[c].slots[i] = Mapped(items[c]).slots[i]
        /\ promise[c].state = "resolved" =>
              (FailIdx(items[c]) = {} /\ promise[c].value = Mapped(items[c]))
        /\ promise[c].state = "rejected" =>
              \E i \in FailIdx(items[c]) : promise[c].error = ErrorAt(c, i)
        /\ (Quiescent(c) /\ FailIdx(items[c]) = {}) => all[c].state = "fulfilled"
        /\ (Quiescent(c) /\ FailIdx(items[c]) # {}) => all[c].state = "rejected"
C10_NoInterference ==
    /\ [](\A c \in Calls : CallAlone(c))
    /\ [][\A c \in Calls, d \in Calls :
             (c # d /\ CallState(c)' # CallState(c)) => CallState(d)' = CallState(d)]_vars

\* Witness of C10: two calls that overlapped, one resolved and one rejected,
\* each on its own two items.
C10_Witness ==
    /\ overlapped
    /\ promise[1].state = "resolved" /\ Len(items[1]) = 2
    /\ promise[2].state = "rejected" /\ Len(items[2]) = 2
    /\ Quiescent(1) /\ Quiescent(2)

\* ------------------------------------------------------------------ tasks
\* The task of item i: Pending until its index is claimed; Running from the
\* claim (which calls the mapper) until the worker has continued after the
\* await; then Completed (results[i] stored) or Failed (the await threw).
Invocations(c, i) == Cardinality({j \in 1..Len(claimLog[c]) : claimLog[c][j].index = i})
ActiveOn(c, i) ==
    {w \in DOMAIN workers[c] :
        workers[c][w].i = i /\ workers[c][w].st \in {"running", "fulfilled", "rejected"}}
TaskState(c, i) ==
    IF Invocations(c, i) = 0 THEN "Pending"
    ELSE IF \E j \in 1..Len(detected[c]) : detected[c][j] = i THEN "Failed"
    ELSE IF i \in DOMAIN results[c].slots THEN "Completed"
    ELSE "Running"

\* C11: the task of an item only moves Pending -> Running -> Completed or
\* Pending -> Running -> Failed; Completed and Failed are final, a settled
\* task has no worker on it again, and the mapper is invoked at most once per
\* index.
C11_TaskSteps ==
    {<<TaskState(1, i), TaskState(1, i)'>> : i \in Indices(items[1]')} \subseteq
        {<<"Pending", "Pending">>, <<"Pending", "Running">>, <<"Running", "Running">>,
         <<"Running", "Completed">>, <<"Running", "Failed">>,
         <<"Completed", "Completed">>, <<"Failed", "Failed">>}
C11_TaskLifecycle ==
    /\ [][C11_TaskSteps]_vars
    /\ [](\A i \in Indices(items[1]) :
             /\ Invocations(1, i) <= 1
             /\ Cardinality(ActiveOn(1, i)) <= 1
             /\ TaskState(1, i) = "Running" <=> ActiveOn(1, i) # {})

\* Witness of C11: of three items one is Completed, one Failed and one Running.
C11_Witness ==
    /\ Len(items[1]) = 3
    /\ TaskState(1, 0) = "Completed"
    /\ TaskState(1, 1) = "Failed"
    /\ TaskState(1, 2) = "Running"

\* C12: result slot i is written only in a step of the worker that claimed
\* index i, only when that worker's mapper invocation for i has fulfilled, with
\* the value of that invocation, and only while the slot is still empty; the
\* step leaves every other slot as it was, and no slot is ever emptied.
SlotWritten(i) ==
    /\ i \in DOMAIN results[1].slots'
    /\ (i \notin DOMAIN results[1].slots \/ results[1].slots'[i] # results[1].slots[i])
C12_SlotSteps ==
    /\ Called(1) => DOMAIN results[1].slots \subseteq DOMAIN results[1].slots'
    /\ \A i \in Indices(items[1]') :
          SlotWritten(i) =>
              /\ i \notin DOMAIN results[1].slots
              /\ \E w \in DOMAIN workers[1] :
                    /\ workers[1][w] = [st |-> "fulfilled", i |-> i]
                    /\ \E j \in 1..Len(claimLog[1]) :
                          claimLog[1][j] = [index |-> i, worker |-> w]
                    /\ workers[1][w]' # workers[1][w]
              /\ results[1].slots'[i] = MapperValue(ItemAt(items[1], i), i)
              /\ \A k \in (DOMAIN results[1].slots' \cup DOMAIN results[1].slots) \ {i} :
                    /\ k \in DOMAIN results[1].slots
                    /\ k \in DOMAIN results[1].slots'
                    /\ results[1].slots'[k] = results[1].slots[k]
C12_SlotWrites == [][C12_SlotSteps]_vars

\* Witness of C12: of three items, slot 1 was written by worker 2 and then
\* slot 0 by worker 1, and the third item is still being mapped.
C12_Witness ==
    /\ Len(items[1]) = 3
    /\ DOMAIN results[1].slots = {0, 1}
    /\ claimLog[1][1].worker = 1
    /\ claimLog[1][2].worker = 2
    /\ Len(claimLog[1]) = 3 /\ claimLog[1][3].worker = 2
    /\ TaskState(1, 2) = "Running"

\* C13: a failure cancels nothing.  The step that records a failure, and the
\* step in which mapLimit rejects, leave every other worker as it was; and
\* every task that is Running once a failure has been recorded goes on to
\* Completed or Failed (its mapper promise settling), also after mapLimit has
\* delivered the error.
C13_OthersUntouched ==
    (detected[1]' # detected[1] \/ (promise[1]' # promise[1] /\ promise[1].state' = "rejected")) =>
        \A w \in DOMAIN workers[1] :
            workers[1][w].st \in {"running", "fulfilled"} => workers[1][w]' = workers[1][w]
C13_InFlightRunsOn ==
    /\ [][C13_OthersUntouched]_vars
    /\ \A i \in 0..(LiveMaxItems - 1) :
          (detected[1] # <<>> /\ TaskState(1, i) = "Running")
              ~> (TaskState(1, i) \in {"Completed", "Failed"})

\* Witness of C13: mapLimit has rejected on the failure of index 0 while the
\* invocation for index 1, started with it, is still running.
C13_Witness ==
    /\ promise[1].state = "rejected"
    /\ Len(items[1]) = 2 /\ Len(workers[1]) = 2
    /\ detected[1] = <<0>>
    /\ workers[1][2] = [st |-> "running", i |-> 1]

\* C14: under fairness, with every awaited mapper promise settling, a call of
\* mapLimit eventually settles, every worker eventually leaves its loop, and
\* in a run without failure every worker returns and mapLimit resolves.
C14_Terminates ==
    /\ Called(1) ~> (promise[1].state \in {"resolved", "rejected"})
    /\ Called(1) ~> Quiescent(1)
    /\ (Called(1) /\ FailIdx(items[1]) = {})
          ~> (/\ \A w \in DOMAIN workers[1] : workers[1][w].st = "returned"
              /\ nextIndex[1] = Len(items[1]) + Len(workers[1])
              /\ promise[1].state = "resolved")

\* Witness of C14: three items, two workers, no failure: both workers have
\* seen the cursor past the last index and returned, and mapLimit resolved.
C14_Witness ==
    /\ promise[1].state = "resolved"
    /\ Len(items[1]) = 3 /\ Len(workers[1]) = 2
    /\ \A w \in DOMAIN workers[1] : workers[1][w] = [st |-> "returned", i |-> 2 + w]

\* C15: a worker whose mapper invocation failed has left its loop for good: it
\* never changes again and takes no further index; its failure stops no other
\* worker (the step that records it changes no other worker, the cursor or the
\* claims).  So with concurrency 1 the failing index is the last one invoked,
\* and once every worker has failed no further item is invoked.
Thrown(w) == workers[1][w].st = "thrown"
C15_Steps ==
    /\ \A w \in DOMAIN workers[1] : Thrown(w) => workers[1][w]' = workers[1][w]
    /\ \A w \in DOMAIN workers[1] :
          (workers[1][w].st = "rejected" /\ workers[1][w].st' = "thrown") =>
              /\ \A v \in DOMAIN workers[1] \ {w} : workers[1][v]' = workers[1][v]
              /\ nextIndex[1]' = nextIndex[1]
              /\ claimLog[1]' = claimLog[1]
    /\ (Called(1) /\ \A w \in DOMAIN workers[1] : Thrown(w)) => claimLog[1]' = claimLog[1]
    /\ \A j \in 1..Len(claimLog'[1]) :
          (Called(1) /\ j > Len(claimLog[1])) =>
              workers[1][claimLog'[1][j].worker].st = "fulfilled"
C15_FailedWorkerStops ==
    /\ [][C15_Steps]_vars
    /\ []((Called(1) /\ Given(1) /\ Requested(1) <= 1 /\ detected[1] # <<>>) =>
             /\ Len(detected[1]) = 1
             /\ Len(claimLog[1]) = detected[1][1] + 1
             /\ \A i \in Indices(items[1]) : i > detected[1][1] => TaskState(1, i) = "Pending")

\* Witness of C15: concurrency 1 on three items of which the second fails: the
\* third is never invoked and mapLimit has rejected.
C15_Witness ==
    /\ Given(1) /\ Requested(1) = 1
    /\ Len(items[1]) = 3
    /\ detected[1] = <<1>>
    /\ promise[1].state = "rejected"
    /\ TaskState(1, 0) = "Completed"
    /\ TaskState(1, 2) = "Pending"

\* C16: mapper invocations start in index order.  A claim calls the mapper in
\* the same step, so the claim log is the start order: it only grows at its
\* end, by the next index, whose worker is running on it after the step.  And
\* the first k = min(concurrency, len(items)) invocations, of indices
\* 0..k-1 by workers 1..k, have all started when mapLimit reaches its await,
\* before any invocation settles.
C16_Steps ==
    /\ Len(claimLog'[1]) >= Len(claimLog[1])
    /\ \A j \in 1..Len(claimLog[1]) : claimLog'[1][j] = claimLog[1][j]
    /\ \A j \in (Len(claimLog[1]) + 1)..Len(claimLog'[1]) :
          /\ claimLog'[1][j].index = j - 1
          /\ workers'[1][claimLog'[1][j].worker] = [st |-> "running", i |-> j - 1]
    /\ Called(1) => Len(claimLog'[1]) <= Len(claimLog[1]) + 1
StartedFirst(k) ==
    /\ Len(claimLog[1]) >= k
    /\ \A j \in 1..k : claimLog[1][j] = [index |-> j - 1, worker |-> j]
C17_DefaultFour ==
    /\ (Called(1) /\ ~Given(1)) =>
          /\ concurrency[1] = 4
          /\ Len(workers[1]) = Min(4, Len(items[1]))
          /\ InFlight(1) <= Min(4, Len(items[1]))
    /\ (Called(1) /\ mainPc # "idle") =>
          /\ Given(1) /\ Requested(1) = 4
          /\ items[1] = Slice(argv, 2)
          /\ InFlight(1) <= Min(4, Len(items[1]))

\* Witness of C17: five items, no concurrency option: four invocations are in
\* flight, the fifth item having been taken by a worker that came back.
C17_Witness ==
    /\ Called(1) /\ ~Given(1)
    /\ Len(items[1]) = 5
    /\ Len(claimLog[1]) = 5
    /\ InFlight(1) = 4

\* C18: if summarizing a file fails, main never writes summaries to stdout
\* and, once main is over, it is over by the catch handler, which has set the
\* exit code to 1 and reported the error; summaries are written only when
\* every file has been summarized successfully, all at once and in the order
\* of the arguments, with the exit code left at 0.
C18_FailureNoOutput ==
    (mainPc \notin {"idle"} /\ Called(1)) =>
        LET a == Slice(argv, 2)
        IN  /\ FailIdx(a) # {} =>
                  /\ stdout = <<>>
                  /\ mainPc \in {"awaiting", "thrown", "caught"}
            /\ mainPc = "caught" =>
                  /\ exitCode = 1
                  /\ detected[1] # <<>>
                  /\ stderr = <<ErrorAt(1, detected[1][1])>>
            /\ mainPc # "caught" => (exitCode = 0 /\ stderr = <<>>)
            /\ stdout # <<>> =>
                  /\ FailIdx(a) = {}
                  /\ mainPc = "returned"
                  /\ Quiescent(1)
                  /\ Len(stdout) = 1
                  /\ stdout[1].kind = "json"
                  /\ Len(stdout[1].elems) = Len(a)
                  /\ \A j \in 1..Len(a) : stdout[1].elems[j] = MapperValue(a[j], j - 1)

\* Witness of C18: three files of which the second cannot be summarized: the
\* other two were summarized, nothing was written and the exit code is 1.
C18_Witness ==
    /\ mainPc = "caught"
    /\ Len(items[1]) = 3
    /\ FailIdx(items[1]) = {1}
    /\ DOMAIN results[1].slots = {0, 2}
    /\ stdout = <<>>
    /\ exitCode = 1

\* C19: called with no file argument, or with -h or --help anywhere among its
\* arguments, main writes the usage text and returns: mapLimit is not called,
\* there is no worker and no mapper invocation, and the exit code stays 0.
HelpAnywhere(args) ==
    Len(args) = 0 \/ \E j \in 1..Len(args) : args[j] \in {HelpShort, HelpLong}
C19_UsageOnly ==
    (mainPc # "idle" /\ HelpAnywhere(Slice(argv, 2))) =>
        /\ mainPc = "returned"
        /\ stdout = <<UsageText(argv)>>
        /\ ~Called(1)
        /\ workers[1] = <<>>
        /\ claimLog[1] = <<>>
        /\ stderr = <<>>
        /\ exitCode = 0

\* Witness of C19: --help given after two file arguments.
C19_Witness ==
    /\ mainPc = "returned"
    /\ Len(argv) = 5
    /\ argv[3] \notin {HelpShort, HelpLong}
    /\ argv[4] \notin {HelpShort, HelpLong}
    /\ argv[5] = HelpLong
    /\ stdout = <<UsageText(argv)>>

====
